---- MODULE Spec2Model ----
(***************************************************************************)
(* Model of the book recommendation demo:                                  *)
(*   - HybridRecommendationSystem_Custom (hybrid_model.py): predict,       *)
(*     recommend and fit over two optional sub-scorers;                    *)
(*   - get_recommendations (book_dashboard.py): nearest-neighbour lookup   *)
(*     in a precomputed similarity matrix.                                 *)
(* Scores, weights and similarities are integers (fixed-point values).     *)
(***************************************************************************)
EXTENDS Integers, Sequences, FiniteSets, TLC

\* ------------------------------------------------------------------ bounds
\* Longest candidate list handed to recommend.
MaxLen == 3

\* ----------------------------------------------------------------- domains
Users == {"u1"}
Items == {1, 2}
\* Values a sub-scorer may return.
Scores == {0, 1}
\* Classes of what a sub-scorer may raise: KeyError derives from Exception,
\* SystemExit derives from BaseException only.
Raisables == {"KeyError", "SystemExit"}
\* Weight pairs the scorer may be constructed with.
WeightPairs == {0, 1, 2} \X {0, 1, 2}
\* The weight pair of the scorer whose recommend calls are followed.
RankingWeights == {<<2, 1>>}
\* Values of top_n handed to recommend.
TopNs == {0, 1, 2}

RECURSIVE SeqsUpTo(_, _)
SeqsUpTo(S, n) ==
    IF n = 0 THEN {<<>>}
    ELSE LET shorter == SeqsUpTo(S, n - 1)
         IN  shorter \cup {Append(s, x) : s \in {t \in shorter : Len(t) = n - 1}, x \in S}

CandidateLists == SeqsUpTo(Items, MaxLen)

\* What one call of a sub-scorer's predict does: return est, or raise exc.
Returns(v) == [ok |-> TRUE, est |-> v, exc |-> ""]
Raises(c) == [ok |-> FALSE, est |-> 0, exc |-> c]
Outcomes == {Returns(v) : v \in Scores} \cup {Raises(c) : c \in Raisables}
Keys == Users \X Items
\* The trained state of a sub-scorer, as the answer it gives for each pair.
ModelStates == [Keys -> Outcomes]
\* The state standing for "no sub-scorer object".
Untrained == [k \in Keys |-> Returns(0)]

VARIABLES
    cf_model,       \* self.cf_model: "None" or "model"
    cb_model,       \* self.cb_model: "None" or "model"
    weights,        \* self.weights
    cf_state,       \* what cf_model.predict answers
    cb_state,       \* what cb_model.predict answers
    pred,           \* <<the latest call and its outcome>> when it was a predict
    rec,            \* <<the latest call and its outcome>> when it was a recommend
    prev,           \* <<outcome of the call before rec>> when that call was a
                    \* recommend with the arguments of rec
    pt_index,       \* pt.index: the book titles, in row order
    similarities,   \* the similarity matrix
    dash            \* <<>> or <<the last get_recommendations call and its outcome>>

hybridVars == <<cf_model, cb_model, weights, cf_state, cb_state, pred, rec, prev>>
dashVars == <<pt_index, similarities, dash>>
vars == <<cf_model, cb_model, weights, cf_state, cb_state, pred, rec, prev,
          pt_index, similarities, dash>>

\* ------------------------------------------------------------ hybrid scorer
\* Truth value of a sub-scorer reference in "if self.cf_model:": None is
\* false, a sub-scorer object (defining neither __bool__ nor __len__) is true.
Configured(m) == m # "None"

\* A loop body without the try/except.
IsException_Nothing(c) == FALSE

\* "except Exception" catches exactly the instances of Exception.
IsException(c) == c = "KeyError"

\* The scores starting at 1.
DefaultScore_One == Returns(1)

\* score_cf, score_cb = 0, 0
DefaultScore == Returns(0)

\* The content-based call wrapped so that a failure counts as 0.
CbPredict_Guarded(u, i) == IF cb_state[<<u, i>>].ok THEN cb_state[<<u, i>>] ELSE Returns(0)

\* self.cf_model.predict(user_id, item_id).est
CfPredict(u, i) == cf_state[<<u, i>>]
\* self.cb_model.predict(user_id, item_id)
CbPredict(u, i) == cb_state[<<u, i>>]

\* The weights applied to the wrong scores.
Combine_Swapped(w, s_cf, s_cb) == w[2] * s_cf + w[1] * s_cb

\* self.weights[0] * score_cf + self.weights[1] * score_cb

Combine(w, s_cf, s_cb) == w[1] * s_cf + w[2] * s_cb

\* Both sub-scorers asked whatever the first one did.
CbReached_Always(cfOut) == TRUE

\* Line 19 is reached only when line 18 raised nothing.
CbReached(cfOut) == cfOut.ok

\* predict(user_id, item_id): its outcome and the sub-scorer calls it made.
predict(u, i) ==
    LET cfCalled == Configured(cf_model)
        cfOut == IF cfCalled THEN CfPredict(u, i) ELSE DefaultScore
        cbCalled == CbReached(cfOut) /\ Configured(cb_model)
        cbOut == IF cbCalled THEN CbPredict(u, i) ELSE DefaultScore
        calls == (IF cfCalled THEN <<[scorer |-> "cf", user |-> u, item |-> i, ok |-> cfOut.ok]>>
                  ELSE <<>>)
                 \o (IF cbCalled THEN <<[scorer |-> "cb", user |-> u, item |-> i, ok |-> cbOut.ok]>>
                     ELSE <<>>)
    IN  IF ~cfOut.ok THEN [ok |-> FALSE, exc |-> cfOut.exc, value |-> 0, calls |-> calls]
        ELSE IF ~cbOut.ok THEN [ok |-> FALSE, exc |-> cbOut.exc, value |-> 0, calls |-> calls]
        ELSE [ok |-> TRUE, exc |-> "",
              value |-> Combine(weights, cfOut.est, cbOut.est), calls |-> calls]

\* The list kept from one call to the next.
NewScoredItems_Kept(old) == old

\* scored_items = []
NewScoredItems(old) == <<>>

\* The calls of one loop iteration, tagged with the candidate's position.
Tagged(calls, k) ==
    [j \in 1 .. Len(calls) |->
        [scorer |-> calls[j].scorer, user |-> calls[j].user, item |-> calls[j].item,
         ok |-> calls[j].ok, idx |-> k]]

\* One pass of the body of "for item_id in items" for candidate k, p being
\* what predict did: the tuple (item_id, score) is appended, or the candidate
\* is skipped ("except Exception: continue"), or the exception leaves the
\* loop.  idx records the candidate's position.
LoopBody(its, k, acc, p) ==
    IF p.ok
    THEN [scored |-> Append(acc.scored, [item |-> its[k], score |-> p.value, idx |-> k]),
          calls |-> acc.calls \o Tagged(p.calls, k), exc |-> ""]
    ELSE IF IsException(p.exc)
    THEN [scored |-> acc.scored, calls |-> acc.calls \o Tagged(p.calls, k), exc |-> ""]
    ELSE [scored |-> acc.scored, calls |-> acc.calls \o Tagged(p.calls, k), exc |-> p.exc]

\* The loop from candidate k on.
RECURSIVE ScoreLoop(_, _, _, _)
ScoreLoop(u, its, k, acc) ==
    IF k > Len(its) \/ acc.exc # "" THEN acc
    ELSE ScoreLoop(u, its, k + 1, LoopBody(its, k, acc, predict(u, its[k])))

\* Insertion in front of the entries of equal score.
RECURSIVE InsertDesc_BeforeTies(_, _)
InsertDesc_BeforeTies(s, e) ==
    IF s = <<>> THEN <<e>>
    ELSE IF s[1].score <= e.score THEN <<e>> \o s
    ELSE <<s[1]>> \o InsertDesc_BeforeTies(Tail(s), e)

\* Insert e behind every entry whose score is not smaller.
RECURSIVE InsertDesc(_, _)
InsertDesc(s, e) ==
    IF s = <<>> THEN <<e>>
    ELSE IF s[1].score < e.score THEN <<e>> \o s
    ELSE <<s[1]>> \o InsertDesc(Tail(s), e)

\* sorted without reverse=True.
RECURSIVE InsertAsc(_, _)
InsertAsc(s, e) ==
    IF s = <<>> THEN <<e>>
    ELSE IF s[1].score > e.score THEN <<e>> \o s
    ELSE <<s[1]>> \o InsertAsc(Tail(s), e)

RECURSIVE SortedDesc_Ascending(_)
SortedDesc_Ascending(s) ==
    IF s = <<>> THEN <<>>
    ELSE InsertAsc(SortedDesc_Ascending(SubSeq(s, 1, Len(s) - 1)), s[Len(s)])

\* sorted(scored_items, key=lambda x: x[1], reverse=True)
RECURSIVE SortedDesc(_)
SortedDesc(s) ==
    IF s = <<>> THEN <<>>
    ELSE InsertDesc(SortedDesc(SubSeq(s, 1, Len(s) - 1)), s[Len(s)])

Min(a, b) == IF a < b THEN a ELSE b

\* A slice one entry too long.
Slice_OneMore(s, n) == SubSeq(s, 1, Min(n + 1, Len(s)))

\* s[:n], for n >= 0
Slice(s, n) == SubSeq(s, 1, Min(n, Len(s)))

\* The return statement, or the exception that left the loop.
Finish(loop, n) ==
    IF loop.exc # ""
    THEN [raised |-> loop.exc, value |-> <<>>,
          scored_items |-> loop.scored, calls |-> loop.calls]
    ELSE [raised |-> "", value |-> Slice(SortedDesc(loop.scored), n),
          scored_items |-> loop.scored, calls |-> loop.calls]

\* recommend(user_id, items, top_n), with the local list starting as start.
recommend(u, its, n, start) ==
    Finish(ScoreLoop(u, its, 1, [scored |-> start, calls |-> <<>>, exc |-> ""]), n)

\* The (item_id, score) tuples of a list of entries.
Pairs(s) == [j \in 1 .. Len(s) |-> <<s[j].item, s[j].score>>]

\* The local list the previous recommend call left behind.
LastLocal == IF rec = <<>> THEN <<>> ELSE rec[1].out.scored_items

\* What fit(X) makes of a sub-scorer: X is one observation.
Train(state, X) == [state EXCEPT ![X.key] = X.out]
TrainingData == [key : Keys, out : Outcomes]

InitHybrid(W) ==
    /\ cf_model \in {"None", "model"}
    /\ cb_model \in {"None", "model"}
    /\ weights \in W
    /\ cf_state \in (IF Configured(cf_model) THEN ModelStates ELSE {Untrained})
    /\ cb_state \in (IF Configured(cb_model) THEN ModelStates ELSE {Untrained})
    /\ pred = <<>>
    /\ rec = <<>>
    /\ prev = <<>>

CallPredict(u, i) ==
    /\ pred' = <<[user |-> u, item |-> i, out |-> predict(u, i)]>>
    /\ rec' = <<>>
    /\ prev' = <<>>
    /\ UNCHANGED <<cf_model, cb_model, weights, cf_state, cb_state>>
    /\ UNCHANGED dashVars

CallRecommend(u, its, n) ==
    /\ rec' = <<[user |-> u, items |-> its, top_n |-> n,
                 out |-> recommend(u, its, n, NewScoredItems(LastLocal))]>>
    /\ prev' = IF rec # <<>> /\ rec[1].user = u /\ rec[1].items = its /\ rec[1].top_n = n
               THEN <<rec[1].out>>
               ELSE <<>>
    /\ pred' = <<>>
    /\ UNCHANGED <<cf_model, cb_model, weights, cf_state, cb_state>>
    /\ UNCHANGED dashVars

\* fit(X): each configured sub-scorer is retrained; what was observed of the
\* sub-scorers before no longer describes them.
CallFit(X) ==
    /\ Configured(cf_model) \/ Configured(cb_model)
    /\ cf_state' = IF Configured(cf_model) THEN Train(cf_state, X) ELSE cf_state
    /\ cb_state' = IF Configured(cb_model) THEN Train(cb_state, X) ELSE cb_state
    /\ pred' = <<>>
    /\ rec' = <<>>
    /\ prev' = <<>>
    /\ UNCHANGED <<cf_model, cb_model, weights>>
    /\ UNCHANGED dashVars

DashIdle ==
    /\ pt_index = <<>>
    /\ similarities = <<>>
    /\ dash = <<>>

Init == InitHybrid(RankingWeights) /\ DashIdle

Next ==
    \/ \E u \in Users, i \in Items : CallPredict(u, i)
    \/ \E u \in Users, its \in CandidateLists, n \in TopNs : CallRecommend(u, its, n)
    \/ \E X \in TrainingData : CallFit(X)

Spec == Init /\ [][Next]_vars

\* The scorer under every weight pair, with predict and fit only.
InitPredict == InitHybrid(WeightPairs) /\ DashIdle

NextPredict ==
    \/ \E u \in Users, i \in Items : CallPredict(u, i)
    \/ \E X \in TrainingData : CallFit(X)

SpecPredict == InitPredict /\ [][NextPredict]_vars

\* ---------------------------------------------------- similarity dashboard
\* Largest number of rows of pt.
MaxBooks == 4
\* Largest num_recommendations asked for.
MaxRecs == 3

AllTitles == <<"A", "B", "C", "D", "E", "F">>
Titles == {AllTitles[j] : j \in 1 .. Len(AllTitles)}
\* Similarities in units of 0.00001; 100000 is the cosine similarity 1.0.
SimValues == {50005, 99996, 100000}
SelfSimilarity == 100000
NumRecs == 1 .. MaxRecs

\* The cosine-similarity matrices of n books: symmetric, 1.0 on the diagonal.
Matrices(n) ==
    LET above == {p \in (1 .. n) \X (1 .. n) : p[1] < p[2]}
    IN  {[a \in 1 .. n |-> [b \in 1 .. n |->
             IF a = b THEN SelfSimilarity
             ELSE IF a < b THEN t[<<a, b>>] ELSE t[<<b, a>>]]] : t \in [above -> SimValues]}

\* book_name in pt.index
InIndex(book_name) == \E j \in 1 .. Len(pt_index) : pt_index[j] = book_name

\* np.where(pt.index == book_name)[0][0]
IndexOf(book_name) ==
    CHOOSE j \in 1 .. Len(pt_index) :
        /\ pt_index[j] = book_name
        /\ \A h \in 1 .. j - 1 : pt_index[h] # book_name

\* list(enumerate(similarities[index]))
Enumerate(row) == [j \in 1 .. Len(row) |-> [item |-> j, score |-> row[j]]]

\* round(similarity_score, 4): to the nearest multiple of 0.0001, a half to
\* the even one.
Round4(x) ==
    LET q == x \div 10
        r == x % 10
    IN  IF r < 5 THEN 10 * q
        ELSE IF r > 5 THEN 10 * (q + 1)
        ELSE IF q % 2 = 0 THEN 10 * q ELSE 10 * (q + 1)

\* sorted(..., key=lambda x: x[1], reverse=True)[1:num_recommendations+1]
SimilarBooksList(index, num_recommendations) ==
    LET ranked == SortedDesc(Enumerate(similarities[index]))
    IN  SubSeq(ranked, 2, Min(num_recommendations + 1, Len(ranked)))

\* get_recommendations(book_name, pt, similarities, num_recommendations)
get_recommendations(book_name, num_recommendations) ==
    IF InIndex(book_name)
    THEN LET similar_books_list == SimilarBooksList(IndexOf(book_name), num_recommendations)
         IN  [none |-> FALSE,
              value |-> [j \in 1 .. Len(similar_books_list) |->
                            [book |-> pt_index[similar_books_list[j].item],
                             similarity |-> Round4(similar_books_list[j].score)]]]
    ELSE [none |-> TRUE, value |-> <<>>]

\* The scorer left alone: no sub-scorer, no call.
HybridIdle ==
    /\ cf_model = "None"
    /\ cb_model = "None"
    /\ weights \in RankingWeights
    /\ cf_state = Untrained
    /\ cb_state = Untrained
    /\ pred = <<>>
    /\ rec = <<>>
    /\ prev = <<>>

\* pt and similarities as load_data returns them.
InitDash ==
    /\ HybridIdle
    /\ \E n \in 1 .. MaxBooks :
          /\ pt_index = SubSeq(AllTitles, 1, n)
          /\ similarities \in Matrices(n)
    /\ dash = <<>>

CallGetRecommendations(book_name, num_recommendations) ==
    /\ dash' = <<[book_name |-> book_name, num_recommendations |-> num_recommendations,
                  out |-> get_recommendations(book_name, num_recommendations)]>>
    /\ UNCHANGED <<pt_index, similarities>>
    /\ UNCHANGED hybridVars

NextDash ==
    \E book_name \in Titles, num_recommendations \in NumRecs :
        CallGetRecommendations(book_name, num_recommendations)

SpecDash == InitDash /\ [][NextDash]_vars

\* ------------------------------------------------- properties of the scorer
\* The candidates of its whose scoring by predict succeeds, in order.
Survivors(u, its) ==
    LET Succeeds(i) == predict(u, i).ok
    IN  SelectSeq(its, Succeeds)

\* The candidate positions an outcome's entries came from.
IdxOf(v) == {v[j].idx : j \in 1 .. Len(v)}

\* C1: when every configured sub-scorer succeeds for (user, item), predict
\* returns w_cf * s_cf + w_cb * s_cb, where s_cf (s_cb) is what the
\* collaborative-filtering (content-based) sub-scorer answers if it is
\* configured and 0 if it is not.
C1_PredictIsWeightedSum ==
    pred # <<>> =>
        LET k == <<pred[1].user, pred[1].item>>
            cfOk == cf_model = "None" \/ cf_state[k].ok
            cbOk == cb_model = "None" \/ cb_state[k].ok
            s_cf == IF cf_model = "None" THEN 0 ELSE cf_state[k].est
            s_cb == IF cb_model = "None" THEN 0 ELSE cb_state[k].est
        IN  (cfOk /\ cbOk) =>
                /\ pred[1].out.ok
                /\ pred[1].out.value = weights[1] * s_cf + weights[2] * s_cb

\* A predict call with both sub-scorers answering 1 under weights (2, 0).
C1_Witness ==
    /\ pred # <<>>
    /\ cf_model = "model" /\ cb_model = "model"
    /\ weights = <<2, 0>>
    /\ cf_state[<<pred[1].user, pred[1].item>>] = Returns(1)
    /\ cb_state[<<pred[1].user, pred[1].item>>] = Returns(1)
    /\ pred[1].out.value = 2

\* C2 as stated: recommend raises nothing whatever a candidate's scoring
\* raises, and returns what it returns for the candidate list without the
\* failing candidates (the empty list when every candidate fails).
C2_RecoversFromAnyFailure ==
    rec # <<>> =>
        LET r == rec[1]
            kept == Survivors(r.user, r.items)
        IN  /\ r.out.raised = ""
            /\ Pairs(r.out.value) = Pairs(recommend(r.user, kept, r.top_n, <<>>).value)
            /\ (kept = <<>> => r.out.value = <<>>)

\* C2 amended: the same, for the calls in which no candidate's scoring raises
\* something that is not an instance of Exception.
C2_RecoversFromExceptions ==
    (rec # <<>> /\ \A j \in 1 .. Len(rec[1].items) :
                      predict(rec[1].user, rec[1].items[j]).exc \in {"", "KeyError"}) =>
        LET r == rec[1]
            kept == Survivors(r.user, r.items)
        IN  /\ r.out.raised = ""
            /\ Pairs(r.out.value) = Pairs(recommend(r.user, kept, r.top_n, <<>>).value)
            /\ (kept = <<>> => r.out.value = <<>>)

\* A call whose first candidate raises KeyError and whose other two are
\* returned.
C2_Witness ==
    /\ rec # <<>>
    /\ Len(rec[1].items) = 3
    /\ predict(rec[1].user, rec[1].items[1]).exc = "KeyError"
    /\ rec[1].out.raised = ""
    /\ Len(rec[1].out.value) = 2

\* C3: when a configured sub-scorer fails for (user, item), predict ends in
\* that failure (the collaborative-filtering one when that sub-scorer fails,
\* else the content-based one) and returns no score.
C3_PredictPropagates ==
    pred # <<>> =>
        LET k == <<pred[1].user, pred[1].item>>
            cfFails == cf_model # "None" /\ ~cf_state[k].ok
            cbFails == cb_model # "None" /\ ~cb_state[k].ok
        IN  (cfFails \/ cbFails) =>
                /\ ~pred[1].out.ok
                /\ pred[1].out.exc = IF cfFails THEN cf_state[k].exc ELSE cb_state[k].exc

\* A predict call whose collaborative-filtering sub-scorer answers and whose
\* content-based sub-scorer raises KeyError.
C3_Witness ==
    /\ pred # <<>>
    /\ cf_model = "model" /\ cb_model = "model"
    /\ cf_state[<<pred[1].user, pred[1].item>>].ok
    /\ cb_state[<<pred[1].user, pred[1].item>>] = Raises("KeyError")
    /\ pred[1].out.exc = "KeyError"

\* C4: for top_n >= 0 the returned list has exactly min(top_n, number of
\* candidates whose scoring succeeded) entries.
C4_LengthIsMin ==
    (rec # <<>> /\ rec[1].out.raised = "" /\ rec[1].top_n >= 0) =>
        Len(rec[1].out.value) =
            Min(rec[1].top_n, Len(Survivors(rec[1].user, rec[1].items)))

\* A call with three surviving candidates cut to top_n = 2.
C4_Witness ==
    /\ rec # <<>>
    /\ rec[1].top_n = 2
    /\ Len(Survivors(rec[1].user, rec[1].items)) = 3
    /\ Len(rec[1].out.value) = 2

\* C5: the returned entries are surviving candidates, each with the score
\* predict gives its item, in non-increasing score order, and no surviving
\* candidate left out scores strictly more than a returned entry.
C5_SortedTopN ==
    (rec # <<>> /\ rec[1].out.raised = "") =>
        LET r == rec[1]
            v == r.out.value
        IN  /\ \A j \in 1 .. Len(v) - 1 : v[j].score >= v[j + 1].score
            /\ \A j \in 1 .. Len(v) :
                  /\ v[j].idx \in 1 .. Len(r.items)
                  /\ v[j].item = r.items[v[j].idx]
                  /\ predict(r.user, v[j].item).ok
                  /\ v[j].score = predict(r.user, v[j].item).value
            /\ \A i, j \in 1 .. Len(v) : i # j => v[i].idx # v[j].idx
            /\ \A k \in 1 .. Len(r.items) :
                  (predict(r.user, r.items[k]).ok /\ k \notin IdxOf(v)) =>
                      \A j \in 1 .. Len(v) :
                          predict(r.user, r.items[k]).value <= v[j].score

\* A call that returns the second candidate and leaves out the first, which
\* survives with a smaller score.
C5_Witness ==
    /\ rec # <<>>
    /\ rec[1].out.raised = ""
    /\ rec[1].top_n = 1
    /\ Len(rec[1].out.value) = 1
    /\ rec[1].out.value[1].idx = 2
    /\ predict(rec[1].user, rec[1].items[1]).ok
    /\ predict(rec[1].user, rec[1].items[1]).value < rec[1].out.value[1].score

\* C6: of two surviving candidates with equal score the one earlier in the
\* candidate list comes first in the result, and of a group of tied
\* candidates cut by top_n the earliest are kept.
C6_StableTies ==
    (rec # <<>> /\ rec[1].out.raised = "") =>
        LET r == rec[1]
            v == r.out.value
        IN  /\ \A i, j \in 1 .. Len(v) :
                  (i < j /\ v[i].score = v[j].score) => v[i].idx < v[j].idx
            /\ \A k \in 1 .. Len(r.items) :
                  (predict(r.user, r.items[k]).ok /\ k \notin IdxOf(v)) =>
                      \A j \in 1 .. Len(v) :
                          v[j].score = predict(r.user, r.items[k]).value => v[j].idx < k

\* A call with three tied surviving candidates, the list starting with the
\* larger item, cut to the first two.
C6_Witness ==
    /\ rec # <<>>
    /\ rec[1].out.raised = ""
    /\ rec[1].items = <<2, 1, 2>>
    /\ rec[1].top_n = 2
    /\ Len(rec[1].out.value) = 2
    /\ rec[1].out.value[1].score = rec[1].out.value[2].score
    /\ predict(rec[1].user, 1).ok
    /\ predict(rec[1].user, 1).value = predict(rec[1].user, 2).value
    /\ Pairs(rec[1].out.value)[1][1] = 2
    /\ Pairs(rec[1].out.value)[2][1] = 1

\* C7: with no sub-scorer configured, recommend returns the first
\* min(top_n, len(items)) candidates in input order, each with score 0.
C7_NoScorersKeepsInputOrder ==
    (rec # <<>> /\ cf_model = "None" /\ cb_model = "None") =>
        LET r == rec[1]
        IN  /\ r.out.raised = ""
            /\ Pairs(r.out.value) =
                   [j \in 1 .. Min(r.top_n, Len(r.items)) |-> <<r.items[j], 0>>]

\* A call without sub-scorers on a list of three starting with the larger
\* item, cut to two.
C7_Witness ==
    /\ rec # <<>>
    /\ cf_model = "None" /\ cb_model = "None"
    /\ rec[1].items = <<2, 1, 1>>
    /\ rec[1].top_n = 2
    /\ Pairs(rec[1].out.value) = <<<<2, 0>>, <<1, 0>>>>

\* C8: a recommend call that directly follows a recommend call with the same
\* arguments, the sub-scorers not retrained in between, has the same outcome;
\* and a recommend call leaves the sub-scorer references, the weights and the
\* sub-scorers' state as they were.
C8_Idempotent ==
    /\ [](prev # <<>> => prev[1] = rec[1].out)
    /\ [][rec' # <<>> =>
            UNCHANGED <<cf_model, cb_model, weights, cf_state, cb_state>>]_vars

\* A repeated call that returns two entries.
C8_Witness ==
    /\ prev # <<>>
    /\ rec[1].out.raised = ""
    /\ Len(rec[1].out.value) = 2
    /\ Len(prev[1].value) = 2

\* C9: the log of sub-scorer calls of one recommend call follows the
\* candidate list: each call is for the candidate at its position, positions
\* never go back, a position has at most one call of each configured
\* sub-scorer, collaborative filtering first, content-based only after
\* collaborative filtering succeeded, and nothing after a failed call.
C9_SinglePass ==
    rec # <<>> =>
        LET r == rec[1]
            log == r.out.calls
        IN  /\ \A a \in 1 .. Len(log) :
                  /\ log[a].idx \in 1 .. Len(r.items)
                  /\ log[a].item = r.items[log[a].idx]
                  /\ log[a].user = r.user
                  /\ log[a].scorer = "cf" => cf_model # "None"
                  /\ log[a].scorer = "cb" => cb_model # "None"
            /\ \A a, b \in 1 .. Len(log) :
                  a < b =>
                      /\ log[a].idx <= log[b].idx
                      /\ log[a].idx = log[b].idx =>
                            /\ log[a].scorer = "cf"
                            /\ log[b].scorer = "cb"
                      /\ ~log[a].ok => log[a].idx < log[b].idx

\* A call with both sub-scorers in which collaborative filtering fails for
\* the first candidate and both are asked for the second.
C9_Witness ==
    /\ rec # <<>>
    /\ cf_model = "model" /\ cb_model = "model"
    /\ Len(rec[1].out.calls) >= 3
    /\ rec[1].out.calls[1].scorer = "cf"
    /\ ~rec[1].out.calls[1].ok
    /\ rec[1].out.calls[2].scorer = "cf"
    /\ rec[1].out.calls[2].idx = 2
    /\ rec[1].out.calls[3].scorer = "cb"
    /\ rec[1].out.calls[3].idx = 2

\* ---------------------------------------------- properties of the dashboard
\* C10: for a book_name of pt.index the list get_recommendations returns
\* never holds the queried book, has min(num_recommendations, books - 1)
\* entries and is in non-increasing similarity order; for another book_name
\* the function returns None.
C10_NeverRecommendsItself ==
    dash # <<>> =>
        LET d == dash[1]
            v == d.out.value
        IN  IF InIndex(d.book_name)
            THEN /\ ~d.out.none
                 /\ \A j \in 1 .. Len(v) : v[j].book # d.book_name
                 /\ Len(v) = Min(d.num_recommendations, Len(pt_index) - 1)
                 /\ \A j \in 1 .. Len(v) - 1 : v[j].similarity >= v[j + 1].similarity
            ELSE d.out.none

====
